---- MODULE Spec2Model ----
(***************************************************************************)
(* packit-service: the Testing Farm submitter                              *)
(* (packit_service/worker/testing_farm.py, TestingFarmJobHelper).          *)
(*                                                                         *)
(* The state is the helper's configuration (tests_targets, build_targets,  *)
(* the Copr builds of the job's owner/project, the Testing Farm API URL),  *)
(* the TFTTestRunModel table, the frames of run_testing_farm_on_all and    *)
(* run_testing_farm, and the ordered log of what the invocation in         *)
(* progress did to its collaborators (commit statuses, HTTP requests,      *)
(* Sentry).                                                                *)
(*                                                                         *)
(* The checkers of packit_service/worker/checker/distgit.py are modelled   *)
(* further down, with the issue repository they report to; they have a     *)
(* specification of their own, SpecGate.                                   *)
(***************************************************************************)
EXTENDS Integers, Sequences, FiniteSets, TLC

VARIABLES
    tests_targets,          \* self.tests_targets, in iteration order
    build_targets,          \* self.build_targets
    copr_builds,            \* CoprBuildModel rows of owner/project, newest first
    tft_api_url,            \* self.tft_api_url
    testRuns,               \* the TFTTestRunModel table, in insertion order
    log,                    \* effects of the invocation in progress, in order
    allPc,                  \* run_testing_farm_on_all: idle, loop, done, raised
    latest_copr_build_id,   \* its local of that name
    failed,                 \* its local dict of that name
    idx,                    \* position of its for loop in tests_targets
    allResult,              \* the TaskResults it returned
    onePc,                  \* run_testing_farm: idle, composes, requests, done, raised
    caller,                 \* who called run_testing_farm: "direct" or "all"
    build_id,               \* its argument
    chroot,                 \* its argument
    attempts,               \* connection attempts of the request in flight that failed
    req,                    \* its local req, the response to the POST
    oneResult,              \* the TaskResults it returned
    raised,                 \* the exception that left it, "" when none
    runsAtEntry,            \* Len(testRuns) when run_testing_farm was entered
    entered,                \* chroots run_testing_farm was called with, in order
    returned,               \* chroot and TaskResults of each call that returned
    nCalls,                 \* invocations made by the worker so far
    issues,                 \* the open issues of the issue repository, oldest first
    checked,                \* the check the worker is handling: inputs and outcome
    nChecks                 \* checks made by the worker so far

vars == <<tests_targets, build_targets, copr_builds, tft_api_url, testRuns, log,
          allPc, latest_copr_build_id, failed, idx, allResult,
          onePc, caller, build_id, chroot, attempts, req, oneResult, raised,
          runsAtEntry, entered, returned, nCalls, issues, checked, nChecks>>

submitter == <<tests_targets, build_targets, copr_builds, tft_api_url, testRuns, log,
               allPc, latest_copr_build_id, failed, idx, allResult,
               onePc, caller, build_id, chroot, attempts, req, oneResult, raised,
               runsAtEntry, entered, returned, nCalls>>
gate == <<issues, checked, nChecks>>

\* no check is being handled
NoCheck == [checker |-> ""]

config == <<tests_targets, build_targets, copr_builds, tft_api_url>>
allFrame == <<allPc, latest_copr_build_id, failed, idx, allResult>>

----------------------------------------------------------------------------
(* Bounds *)

MaxCalls == 2

(* Inputs *)

Targets == {"fedora-33-x86_64", "epel-8-aarch64"}
PipelineIds == {"abc-123", "9fa3cbd1"}
Messages == {"bad env"}
StatusCodes == {200, 201, 400}
DirectBuildIds == {7}

job_owner == "packit"
job_project == "hello-world"
commit_sha == "0011223"
api_url == "https://prod.packit.dev/api"
testing_farm_secret == "secret"
project_url == "https://github.com/packit/hello-world"

----------------------------------------------------------------------------
(* Python values *)

Absent == "<absent>"

\* a dict with an optional "msg" entry and entries keyed by chroot, or None
PyNone == [none |-> TRUE, msg |-> Absent, items |-> <<>>]
EmptyDict == [none |-> FALSE, msg |-> Absent, items |-> <<>>]
MsgDict(msg) == [none |-> FALSE, msg |-> msg, items |-> <<>>]

Keys(d) == {d[i].key : i \in DOMAIN d}

\* d[key] = value
DictSet(d, key, value) ==
    IF key \in Keys(d)
    THEN [i \in DOMAIN d |-> IF d[i].key = key THEN [key |-> key, value |-> value] ELSE d[i]]
    ELSE Append(d, [key |-> key, value |-> value])

\* the value of the expression d.update(other): update changes d in place and
\* returns None
DictUpdate(d, other) == PyNone

RECURSIVE Join(_)
Join(keys) ==
    IF keys = <<>> THEN ""
    ELSE IF Len(keys) = 1 THEN "'" \o keys[1] \o "'"
    ELSE "'" \o keys[1] \o "', " \o Join(Tail(keys))

\* str(d.keys())
KeysRepr(d) == "dict_keys([" \o Join([i \in DOMAIN d |-> d[i].key]) \o "])"

RECURSIVE ParseInt(_)
\* int(s) of a string of decimal digits
ParseInt(digits) ==
    IF digits = <<>> THEN 0
    ELSE 10 * ParseInt(SubSeq(digits, 1, Len(digits) - 1)) + digits[Len(digits)]

TaskResults(success, details) == [success |-> success, details |-> details]

----------------------------------------------------------------------------
(* Responses of the Testing Farm API *)

NoJson == [parsed |-> FALSE, id |-> Absent, message |-> Absent]

JsonBodies ==
    {NoJson}
    \cup {[parsed |-> TRUE, id |-> i, message |-> Absent] : i \in PipelineIds \cup {Absent}}
    \cup {[parsed |-> TRUE, id |-> Absent, message |-> m] : m \in Messages}

Reason(status_code) ==
    CASE status_code = 200 -> "OK"
      [] status_code = 201 -> "Created"
      [] status_code = 400 -> "Bad Request"
      [] OTHER -> "Internal Server Error"

\* RequestResponse built by get_raw_request
RequestResponse(status_code, json) ==
    [status_code |-> status_code, reason |-> Reason(status_code), json |-> json]

PostResponses == {RequestResponse(s, j) : s \in StatusCodes, j \in JsonBodies}

NoResponse == RequestResponse(0, NoJson)

\* bool(req.json()): None and {} are falsy
Truthy(json) == json.parsed /\ (json.id # Absent \/ json.message # Absent)

\* the catalog's answers: status and, when the body parses, the compose names
CatalogResponses ==
    {[status_code |-> 200, parsed |-> TRUE, composes |-> {"Fedora-33", "Epel-8"}],
     [status_code |-> 200, parsed |-> TRUE, composes |-> {"Fedora-Rawhide"}],
     [status_code |-> 200, parsed |-> FALSE, composes |-> {}],
     [status_code |-> 500, parsed |-> FALSE, composes |-> {}]}

----------------------------------------------------------------------------
(* Log of effects *)

NoUrl == ""

StatusEntry(state, description, url, target) ==
    [kind |-> "status", chroot |-> target, state |-> state,
     description |-> description, url |-> url, method |-> "", data |-> <<>>]

HttpEntry(method, url, target, data) ==
    [kind |-> "http", chroot |-> target, state |-> "",
     description |-> "", url |-> url, method |-> method, data |-> data]

InsertEntry(pipeline_id, target) ==
    [kind |-> "insert", chroot |-> target, state |-> "",
     description |-> pipeline_id, url |-> NoUrl, method |-> "", data |-> <<>>]

SentryEntry(msg, target) ==
    [kind |-> "sentry", chroot |-> target, state |-> "",
     description |-> msg, url |-> NoUrl, method |-> "", data |-> <<>>]

----------------------------------------------------------------------------
(* Construction: __init__ *)

\* HTTPAdapter(max_retries=5)
MaxRetries == 5
\* the retries of the adapter requests.session() mounts for every other scheme
DefaultRetries == 0

\* service_config.testing_farm_api_url; slash: whether it ends with "/"
ConfiguredApiUrls ==
    {[scheme |-> "https", rest |-> "api.dev.testing-farm.io/v0.1", slash |-> FALSE],
     [scheme |-> "http", rest |-> "localhost:8001/", slash |-> TRUE]}

\* self.tft_api_url: the configured URL, "/" appended when it does not end with it
TftApiUrl(configured) ==
    [scheme |-> configured.scheme,
     rest |-> IF configured.slash THEN configured.rest ELSE configured.rest \o "/"]

Render(url) == url.scheme \o "://" \o url.rest

\* retries of the adapter the session picks for a URL: the one mounted on "https://"
RetryBudget(url) == IF url.scheme = "https" THEN MaxRetries ELSE DefaultRetries

\* orders in which a set of distinct targets can be iterated
TestsTargetsChoices ==
    {<<>>} \cup {<<t>> : t \in Targets}
    \cup {st \in Targets \X Targets : st[1] # st[2]}

\* build_id columns (strings of digits) of the builds found, newest first
CoprBuildsChoices == {<<>>, << <<4, 2>> >>, << <<4, 3>>, <<4, 2>> >>}

Init ==
    /\ tests_targets \in TestsTargetsChoices
    /\ build_targets \in SUBSET Targets
    /\ copr_builds \in CoprBuildsChoices
    /\ tft_api_url \in {TftApiUrl(u) : u \in ConfiguredApiUrls}
    /\ testRuns = <<>>
    /\ log = <<>>
    /\ allPc = "idle"
    /\ latest_copr_build_id = 0
    /\ failed = <<>>
    /\ idx = 0
    /\ allResult = TaskResults(FALSE, PyNone)
    /\ onePc = "idle"
    /\ caller = "none"
    /\ build_id = 0
    /\ chroot = ""
    /\ attempts = 0
    /\ req = NoResponse
    /\ oneResult = TaskResults(FALSE, PyNone)
    /\ raised = ""
    /\ runsAtEntry = 0
    /\ entered = <<>>
    /\ returned = <<>>
    /\ nCalls = 0
    /\ issues = <<>>
    /\ checked = NoCheck
    /\ nChecks = 0

----------------------------------------------------------------------------
(* get_compose_arch and _payload *)

\* chroot.rsplit("-", 1) with compose.title(), on the targets of the model
ComposeArch(target) ==
    CASE target = "fedora-33-x86_64" -> <<"Fedora-33", "x86_64">>
      [] target = "epel-8-aarch64" -> <<"Epel-8", "aarch64">>
      [] OTHER -> <<"", "">>

\* the request body: api_key, compose, arch, artifact id, fmf ref, fmf url,
\* webhook url
Payload(id, target) ==
    <<testing_farm_secret, ComposeArch(target)[1], ComposeArch(target)[2],
      ToString(id) \o ":" \o target, commit_sha, project_url,
      api_url \o "/testing-farm/results">>

\* response.json()["composes"] raises on a body that is no JSON
CatalogRaises(response) == response.status_code = 200 /\ ~response.parsed

----------------------------------------------------------------------------
(* run_testing_farm *)

\* the check of tests_targets left out
DeclaredForTestsAlways(target) == TRUE

DeclaredForTests(target) == \E i \in DOMAIN tests_targets : tests_targets[i] = target

\* the check of build_targets left out
DeclaredForBuildAlways(target) == TRUE

DeclaredForBuild(target) == target \in build_targets

NotDefinedForTestsMsg(target) ==
    "Target '" \o target \o "' not defined for tests but triggered."

NotDefinedForBuildMsg(target) ==
    "Target '" \o target \o "' not defined for build. Cannot run tests without build."

\* report_missing_build_chroot
MissingBuildStatus(target) ==
    StatusEntry("error", "No build defined for the target '" \o target \o "'.",
                NoUrl, target)

SubmittingStatus(target) ==
    StatusEntry("pending", "Build succeeded. Submitting the tests ...", NoUrl, target)

\* the catalog is asked before the status is set
BeginSubmissionRequestFirst(target) ==
    <<HttpEntry("GET", Render(tft_api_url) \o "composes", target, <<>>),
      SubmittingStatus(target)>>

\* what a call with both prerequisites met does before it waits for the catalog
BeginSubmission(target) ==
    <<SubmittingStatus(target),
      HttpEntry("GET", Render(tft_api_url) \o "composes", target, <<>>)>>

Returned(history, target, result) ==
    Append(history, [chroot |-> target, result |-> result])

\* the prerequisite checks, the pending status and the catalog request;
\* before and since are log and returned as the caller leaves them
Enter(target, id, by, before, since) ==
    /\ caller' = by
    /\ chroot' = target
    /\ build_id' = id
    /\ runsAtEntry' = Len(testRuns)
    /\ attempts' = 0
    /\ req' = NoResponse
    /\ raised' = ""
    /\ entered' = IF by = "all" THEN Append(entered, target) ELSE <<target>>
    /\ UNCHANGED testRuns
    /\ IF ~DeclaredForTests(target)
       THEN /\ log' = Append(before, SentryEntry(NotDefinedForTestsMsg(target), target))
            /\ oneResult' = TaskResults(FALSE, MsgDict(NotDefinedForTestsMsg(target)))
            /\ returned' = Returned(since, target, oneResult')
            /\ onePc' = "done"
       ELSE IF ~DeclaredForBuild(target)
       THEN /\ log' = Append(before, MissingBuildStatus(target))
            /\ oneResult' = TaskResults(FALSE, MsgDict(NotDefinedForBuildMsg(target)))
            /\ returned' = Returned(since, target, oneResult')
            /\ onePc' = "done"
       ELSE /\ log' = before \o BeginSubmission(target)
            /\ oneResult' = TaskResults(FALSE, PyNone)
            /\ returned' = since
            /\ onePc' = "composes"

\* the worker is between invocations
CanInvoke ==
    /\ allPc \in {"idle", "done", "raised"}
    /\ onePc \in {"idle", "done", "raised"}
    /\ nCalls < MaxCalls

\* run_testing_farm(build_id, chroot) called by the worker
run_testing_farm(target, id) ==
    /\ CanInvoke
    /\ nCalls' = nCalls + 1
    /\ allPc' = "idle"
    /\ latest_copr_build_id' = 0
    /\ failed' = <<>>
    /\ idx' = 0
    /\ allResult' = TaskResults(FALSE, PyNone)
    /\ Enter(target, id, "direct", <<>>, <<>>)
    /\ UNCHANGED <<gate, config, gate>>

\* the ConnectionError is swallowed and None is returned
OnConnectionErrorSwallowed == "none"

\* what send_testing_farm_request does with the ConnectionError left when the
\* adapter's retries are used up
OnConnectionError == "raise"

\* an attempt to connect fails; the adapter retries until its budget is used up
ConnectionError ==
    /\ onePc \in {"composes", "requests"}
    /\ attempts' = attempts + 1
    /\ IF attempts + 1 <= RetryBudget(tft_api_url)
       THEN UNCHANGED <<onePc, raised, oneResult, log, req, returned>>
       ELSE IF OnConnectionError = "raise"
       THEN /\ onePc' = "raised"
            /\ raised' = "Exception: Cannot connect to url"
            /\ UNCHANGED <<oneResult, log, req, returned>>
       ELSE IF onePc = "composes"
       THEN \* response.status_code of None
            /\ onePc' = "raised"
            /\ raised' = "AttributeError"
            /\ UNCHANGED <<oneResult, log, req, returned>>
       ELSE \* "if not req"
            /\ onePc' = "done"
            /\ req' = NoResponse
            /\ log' = Append(log, StatusEntry("error",
                         "Failed to post request to testing farm API.", NoUrl, chroot))
            /\ oneResult' = TaskResults(FALSE,
                         MsgDict("Failed to post request to testing farm API."))
            /\ returned' = Returned(returned, chroot, oneResult')
            /\ UNCHANGED raised
    /\ UNCHANGED <<gate, config, allFrame, testRuns, caller, build_id, chroot,
                   runsAtEntry, entered, nCalls>>

\* the catalog answers: the rest of get_compose_arch, _payload, and the POST is sent
ComposesResponse(response) ==
    /\ onePc = "composes"
    /\ attempts' = 0
    /\ IF CatalogRaises(response)
       THEN /\ onePc' = "raised"
            /\ raised' = "TypeError"
            /\ UNCHANGED log
       ELSE /\ onePc' = "requests"
            /\ log' = Append(log, HttpEntry("POST", Render(tft_api_url) \o "requests",
                                            chroot, Payload(build_id, chroot)))
            /\ UNCHANGED raised
    /\ UNCHANGED <<gate, config, allFrame, testRuns, caller, build_id, chroot, req,
                   oneResult, runsAtEntry, entered, returned, nCalls>>

\* response.ok instead of the comparison with 200
AcceptedAny2xx(response) == response.status_code \in 200..299

\* "if req.status_code != 200" is not taken
Accepted(response) == response.status_code = 200

\* the message of the body is never looked at
FailureMessageFromReason(response) == "Failed to submit tests: " \o response.reason

\* the msg of the "something went wrong" branch
FailureMessage(response) ==
    IF Truthy(response.json) /\ response.json.message # Absent
    THEN response.json.message
    ELSE "Failed to submit tests: " \o response.reason

\* the exception of req.json()["id"], "" when the body has an id
IdError(response) ==
    IF ~response.json.parsed THEN "TypeError"
    ELSE IF response.json.id = Absent THEN "KeyError"
    ELSE ""

NoWebUrl == "<None>"

\* the row is created with the URL of the request as its web_url
NewTestRunWithUrl(pipeline_id, target) ==
    [pipeline_id |-> pipeline_id, commit_sha |-> commit_sha, status |-> "new",
     target |-> target, web_url |-> Render(tft_api_url) \o "requests/" \o pipeline_id]

\* the row TFTTestRunModel.create inserts
NewTestRun(pipeline_id, target) ==
    [pipeline_id |-> pipeline_id, commit_sha |-> commit_sha, status |-> "new",
     target |-> target, web_url |-> NoWebUrl]

SubmittedStatus(pipeline_id, target) ==
    StatusEntry("pending", "Tests have been submitted ...",
                Render(tft_api_url) \o "requests/" \o pipeline_id, target)

FailedStatus(msg, target) == StatusEntry("failure", msg, NoUrl, target)

\* the service answers the POST: the response is classified. A RequestResponse is
\* never falsy, so "if not req" (lines 173-181) is not taken here: req is None
\* only if send_testing_farm_request returned without a response.
RequestsResponse(response) ==
    /\ onePc = "requests"
    /\ req' = response
    /\ attempts' = 0
    /\ IF ~Accepted(response)
       THEN /\ log' = Append(log, FailedStatus(FailureMessage(response), chroot))
            /\ oneResult' = TaskResults(FALSE, MsgDict(FailureMessage(response)))
            /\ returned' = Returned(returned, chroot, oneResult')
            /\ onePc' = "done"
            /\ UNCHANGED <<testRuns, raised>>
       ELSE IF IdError(response) # ""
       THEN /\ onePc' = "raised"
            /\ raised' = IdError(response)
            /\ UNCHANGED <<testRuns, log, oneResult, returned>>
       ELSE /\ testRuns' = Append(testRuns, NewTestRun(response.json.id, chroot))
            /\ log' = log \o <<InsertEntry(response.json.id, chroot),
                               SubmittedStatus(response.json.id, chroot)>>
            /\ oneResult' = TaskResults(TRUE, EmptyDict)
            /\ returned' = Returned(returned, chroot, oneResult')
            /\ onePc' = "done"
            /\ UNCHANGED raised
    /\ UNCHANGED <<gate, config, allFrame, caller, build_id, chroot, runsAtEntry, entered,
                   nCalls>>

----------------------------------------------------------------------------
(* run_testing_farm_on_all *)

\* the message does not say whose builds are missing
NoCoprBuildsMsgBare == "No copr builds"

NoCoprBuildsMsg == "No copr builds for " \o job_owner \o "/" \o job_project

\* called by the worker: the lookup of the builds
run_testing_farm_on_all ==
    /\ CanInvoke
    /\ nCalls' = nCalls + 1
    /\ log' = <<>>
    /\ onePc' = "idle"
    /\ caller' = "none"
    /\ build_id' = 0
    /\ chroot' = ""
    /\ attempts' = 0
    /\ req' = NoResponse
    /\ oneResult' = TaskResults(FALSE, PyNone)
    /\ raised' = ""
    /\ runsAtEntry' = Len(testRuns)
    /\ entered' = <<>>
    /\ returned' = <<>>
    /\ failed' = <<>>
    /\ IF copr_builds = <<>>
       THEN /\ allResult' = TaskResults(FALSE, MsgDict(NoCoprBuildsMsg))
            /\ allPc' = "done"
            /\ latest_copr_build_id' = 0
            /\ idx' = 0
       ELSE /\ latest_copr_build_id' = ParseInt(copr_builds[1])
            /\ allPc' = "loop"
            /\ idx' = 1
            /\ allResult' = TaskResults(FALSE, PyNone)
    /\ UNCHANGED <<gate, config, testRuns>>

\* the loop calls run_testing_farm for the next chroot
SubmitNext ==
    /\ allPc = "loop"
    /\ onePc = "idle"
    /\ idx <= Len(tests_targets)
    /\ Enter(tests_targets[idx], latest_copr_build_id, "all", log, returned)
    /\ UNCHANGED <<gate, config, allFrame, nCalls>>

\* the result of the call is not looked at
CollectedNothing(dict, target, result) == dict

\* failed after the loop body has seen the result of chroot
Collected(dict, target, result) ==
    IF ~result.success THEN DictSet(dict, target, result.details) ELSE dict

\* run_testing_farm returned to the loop
Collect ==
    /\ allPc = "loop"
    /\ caller = "all"
    /\ onePc = "done"
    /\ failed' = Collected(failed, chroot, oneResult)
    /\ idx' = idx + 1
    /\ onePc' = "idle"
    /\ UNCHANGED <<gate, config, testRuns, log, allPc, latest_copr_build_id, allResult,
                   caller, build_id, chroot, attempts, req, oneResult, raised,
                   runsAtEntry, entered, returned, nCalls>>

\* the loop goes on to the next chroot
AfterExceptionContinue(i) == [allPc |-> "loop", idx |-> i + 1, onePc |-> "idle"]

\* where an exception raised in the loop body leaves run_testing_farm_on_all:
\* nothing in the loop catches it
AfterException(i) == [allPc |-> "raised", idx |-> i, onePc |-> "raised"]

\* an exception of run_testing_farm leaves the loop and run_testing_farm_on_all
Propagate ==
    /\ allPc = "loop"
    /\ caller = "all"
    /\ onePc = "raised"
    /\ allPc' = AfterException(idx).allPc
    /\ idx' = AfterException(idx).idx
    /\ onePc' = AfterException(idx).onePc
    /\ UNCHANGED <<gate, config, testRuns, log, latest_copr_build_id, failed, allResult,
                   caller, build_id, chroot, attempts, req, oneResult, raised,
                   runsAtEntry, entered, returned, nCalls>>

\* the TaskResults built after the loop
Aggregate(dict) ==
    IF dict = <<>>
    THEN TaskResults(TRUE, EmptyDict)
    ELSE TaskResults(FALSE,
             DictUpdate(MsgDict("Failed testing farm targets: '" \o KeysRepr(dict) \o "'."),
                        dict))

\* the loop is over
Finish ==
    /\ allPc = "loop"
    /\ onePc = "idle"
    /\ idx > Len(tests_targets)
    /\ allResult' = Aggregate(failed)
    /\ allPc' = "done"
    /\ UNCHANGED <<gate, config, testRuns, log, latest_copr_build_id, failed, idx,
                   onePc, caller, build_id, chroot, attempts, req, oneResult, raised,
                   runsAtEntry, entered, returned, nCalls>>

----------------------------------------------------------------------------

Next ==
    \/ \E target \in Targets, id \in DirectBuildIds : run_testing_farm(target, id)
    \/ ConnectionError
    \/ \E response \in CatalogResponses : ComposesResponse(response)
    \/ \E response \in PostResponses : RequestsResponse(response)
    \/ run_testing_farm_on_all
    \/ SubmitNext
    \/ Collect
    \/ Propagate
    \/ Finish

Spec == Init /\ [][Next]_vars

-----------------------------------------------------------------------------
(***************************************************************************)
(* The policy gate (packit_service/worker/checker/distgit.py).             *)
(*                                                                         *)
(* A checker is handed the event, the job configuration and the project,   *)
(* and answers accept (True) or reject (False).  The worker handles one    *)
(* event at a time: a check records in `checked` what it was given, what   *)
(* it answered, the collaborators it called (in order) and the reports it  *)
(* made; the issue repository `issues` is the only state that outlives it. *)
(***************************************************************************)

MaxChecks == 2

\* a file path or a tag or a pattern is a sequence of one-character strings
SpecSuffix == <<".", "s", "p", "e", "c">>
SpecPath == <<"a">> \o SpecSuffix
BackupPath == <<"a">> \o SpecSuffix \o <<".", "b">>
ReadmePath == <<"R", "E", "A", "D", "M", "E">>

\* str.endswith
Contains(s, suffix) ==
    \E i \in 1..Len(s) : i + Len(suffix) - 1 <= Len(s) /\ SubSeq(s, i, i + Len(suffix) - 1) = suffix
EndsWith(s, suffix) ==
    /\ Len(s) >= Len(suffix)
    /\ SubSeq(s, Len(s) - Len(suffix) + 1, Len(s)) = suffix

Users == {"alice", "mallory"}
MergeServiceAccount(committer) == committer = "pagure"
Committers == Users \cup {"pagure"}
GitRefs == {"main", "f39", "devel"}
PrIds == {4}
IssueIds == {12}
issue_repository == "https://github.com/packit/notifications"
dist_git_project_url == "https://src.fedoraproject.org/rpms/packit"
MSG_GET_IN_TOUCH == "\n\n---\n\n*Get in touch with us if you need some help.*"

\* get_branches(*names, default=..., with_aliases=True): the names, each alias
\* replaced by the branches it stands for; the default when no name is given
Aliases == [b \in {"fedora-stable"} |-> {"f38", "f39"}]
ExpandAlias(name) == IF name \in DOMAIN Aliases THEN Aliases[name] ELSE {name}
get_branches(names, default) ==
    UNION {ExpandAlias(name) : name \in (IF names = {} THEN {default} ELSE names)}

OnConfiguredBranchAlways(event, job_config) == TRUE
OnConfiguredBranch(event, job_config) ==
    event.git_ref \in get_branches(job_config.dist_git_branches, "main")

\* the pull request of the event, as the project returns it: None, or its id,
\* author and the diff get_pr_files_diff answers (None, or a dict keyed by path)
NoPullRequest == [none |-> TRUE]
NoDiff == [none |-> TRUE]
Diffs == {NoDiff} \cup {[none |-> FALSE, files |-> f] :
                            f \in {{ReadmePath, BackupPath}, {ReadmePath, SpecPath}}}
PullRequests == {NoPullRequest} \cup
    {[none |-> FALSE, id |-> i, author |-> a, diff |-> d] :
        i \in PrIds, a \in Users, d \in Diffs}

JobConfigs ==
    {[dist_git_branches |-> b, allowed_pr_authors |-> a, allowed_committers |-> c,
      issue_repository |-> issue_repository] :
        b \in {{}, {"fedora-stable"}}, a \in {{}, {"alice"}}, c \in {{}, {"alice"}}}
PackagerSets == {{}, {"alice"}}

\* the events the checkers tell apart, with the fields they read
PushPagureEvents ==
    {[event_type |-> "PushPagureEvent", git_ref |-> r, committer |-> c,
      project_url |-> dist_git_project_url] : r \in GitRefs, c \in Committers}
PullRequestCommentPagureEvents ==
    {[event_type |-> "PullRequestCommentPagureEvent", actor |-> u, pr_id |-> i,
      git_ref |-> r, project_url |-> dist_git_project_url] :
        u \in Users, i \in PrIds, r \in {"main", "devel"}}
OtherEvents == {[event_type |-> "KojiBuildEvent", project_url |-> dist_git_project_url]}

\* what a check answers and did
Verdict(accepted, calls, reports) ==
    [accepted |-> accepted, calls |-> calls, reports |-> reports]
Report(title, message, comment_to_existing) ==
    [title |-> title, message |-> message, comment_to_existing |-> comment_to_existing]
Value(value, calls) == [value |-> value, calls |-> calls]

\* a rejection that is logged and returns False
LoggedOnlyReported(calls) ==
    Verdict(FALSE, calls \o <<"report_in_issue_repository">>,
            <<Report("Push rejected", "Push rejected", "Push rejected")>>)
LoggedOnly(calls) == Verdict(FALSE, calls, <<>>)

\* PermissionOnDistgit.contains_specfile_change
contains_specfile_change(pull_request) ==
    IF pull_request.none
    THEN Value(TRUE, <<"pull_request">>)
    ELSE LET diff == IF pull_request.diff.none THEN {} ELSE pull_request.diff.files IN
         Value(\E change \in diff : EndsWith(change, SpecSuffix),
               <<"pull_request", "pull_request", "pull_request", "get_pr_files_diff">>)

NotPackagerKojiMsg(event) ==
    "koji-build retriggering through comment on PR identifier "
    \o ToString(event.pr_id) \o " and project " \o event.project_url
    \o " done by " \o event.actor \o " which is not a packager."
KojiRetriggerTitle == "Re-triggering downstream koji build through comment in dist-git PR failed"

PrAuthorAllowed(pull_request, job_config) ==
    pull_request.author \in job_config.allowed_pr_authors

CommitterAllowed(event, job_config) == event.committer \in job_config.allowed_committers

is_packager_anyone(user, packagers) == TRUE
is_packager(user, packagers) == user \in packagers

\* PermissionOnDistgit.pre_check
PermissionOnDistgit_pre_check(event, job_config, pull_request, packagers) ==
    IF event.event_type = "PushPagureEvent"
    THEN IF ~OnConfiguredBranch(event, job_config)
         THEN LoggedOnly(<<"get_branches">>)
         ELSE IF MergeServiceAccount(event.committer)
         THEN IF pull_request.none
              THEN LoggedOnly(<<"get_branches", "pull_request">>)
              ELSE LET spec == contains_specfile_change(pull_request)
                       upto == <<"get_branches", "pull_request">> \o spec.calls IN
                   IF ~spec.value
                   THEN LoggedOnly(upto)
                   ELSE IF ~PrAuthorAllowed(pull_request, job_config)
                   THEN LoggedOnly(upto \o <<"get_pr_author", "allowed_pr_authors">>)
                   ELSE Verdict(TRUE, upto \o <<"get_pr_author", "allowed_pr_authors">>, <<>>)
         ELSE IF ~CommitterAllowed(event, job_config)
         THEN LoggedOnly(<<"get_branches", "allowed_committers">>)
         ELSE Verdict(TRUE, <<"get_branches", "allowed_committers">>, <<>>)
    ELSE IF event.event_type = "PullRequestCommentPagureEvent"
    THEN IF ~is_packager(event.actor, packagers)
         THEN LET msg == NotPackagerKojiMsg(event) IN
              Verdict(FALSE, <<"is_packager", "report_in_issue_repository">>,
                      <<Report(KojiRetriggerTitle, msg \o MSG_GET_IN_TOUCH, msg)>>)
         ELSE Verdict(TRUE, <<"is_packager">>, <<>>)
    ELSE Verdict(TRUE, <<>>, <<>>)

\* the open issues of the repository that carry the title, by position
OpenWithTitle(repo, title) == {i \in DOMAIN repo : repo[i].title = title}

\* report_in_issue_repository: a comment on the open issue of that title when
\* there is one, a new issue of that title otherwise
report_in_issue_repositoryAlwaysNew(repo, title, message, comment_to_existing) ==
    Append(repo, [title |-> title, description |-> message, comments |-> <<>>])
report_in_issue_repository(repo, title, message, comment_to_existing) ==
    IF OpenWithTitle(repo, title) # {}
    THEN LET i == CHOOSE j \in OpenWithTitle(repo, title) :
                      \A k \in OpenWithTitle(repo, title) : j <= k IN
         [repo EXCEPT ![i].comments = Append(@, comment_to_existing)]
    ELSE Append(repo, [title |-> title, description |-> message, comments |-> <<>>])

RECURSIVE ReportAll(_, _)
ReportAll(repo, reports) ==
    IF reports = <<>> THEN repo
    ELSE ReportAll(report_in_issue_repository(repo, reports[1].title, reports[1].message,
                                              reports[1].comment_to_existing),
                   Tail(reports))

\* what the worker records of a check: the checker, what it was given, its answer
Outcome(checker, inputs, verdict) ==
    [checker |-> checker, inputs |-> inputs, accepted |-> verdict.accepted,
     calls |-> verdict.calls, reports |-> verdict.reports]

\* the worker is free to hand an event to a checker
CanCheck == nChecks < MaxChecks /\ checked = NoCheck

PermissionOnDistgit(event, job_config, pull_request, packagers) ==
    LET verdict == PermissionOnDistgit_pre_check(event, job_config, pull_request, packagers) IN
    /\ CanCheck
    /\ checked' = Outcome("PermissionOnDistgit",
                          [event |-> event, job_config |-> job_config,
                           pull_request |-> pull_request, packagers |-> packagers],
                          verdict)
    /\ issues' = ReportAll(issues, verdict.reports)
    /\ nChecks' = nChecks + 1
    /\ UNCHANGED submitter

\* HasIssueCommenterRetriggeringPermissions: the events it tells apart, the
\* title of the issue the comment was made on, who has write access
IssueTitles == {"Koji build of packit", KojiRetriggerTitle}
WriterSets == {{}, {"alice"}}
IssueCommentEvents ==
    {[event_type |-> t, actor |-> u, issue_id |-> i, project_url |-> dist_git_project_url] :
        t \in {"IssueCommentEvent", "IssueCommentGitlabEvent"}, u \in Users, i \in IssueIds}
NonIssueEvents ==
    {[event_type |-> t, actor |-> "mallory", issue_id |-> 0,
      project_url |-> dist_git_project_url] :
        t \in {"PushPagureEvent", "PullRequestCommentPagureEvent"}}

has_write_access_anyone(user, writers) == TRUE
has_write_access(user, writers) == user \in writers

NoWriteAccessMsg(event) ==
    "Re-triggering downstream koji-build through comment in repo **"
    \o event.project_url \o "** and issue **" \o ToString(event.issue_id)
    \o "** is not allowed for the user *" \o event.actor
    \o "* which has not write permissions on the project."

\* HasIssueCommenterRetriggeringPermissions._pre_check
HasIssueCommenterRetriggeringPermissions_pre_check(event, writers, issue) ==
    IF event.event_type \in {"IssueCommentEvent", "IssueCommentGitlabEvent"}
    THEN IF ~has_write_access(event.actor, writers)
         THEN LET msg == NoWriteAccessMsg(event) IN
              Verdict(FALSE, <<"has_write_access", "get_issue", "report_in_issue_repository">>,
                      <<Report(issue.title, msg \o MSG_GET_IN_TOUCH, msg)>>)
         ELSE Verdict(TRUE, <<"has_write_access">>, <<>>)
    ELSE Verdict(TRUE, <<>>, <<>>)

HasIssueCommenterRetriggeringPermissions(event, writers, issue) ==
    LET verdict == HasIssueCommenterRetriggeringPermissions_pre_check(event, writers, issue) IN
    /\ CanCheck
    /\ checked' = Outcome("HasIssueCommenterRetriggeringPermissions",
                          [event |-> event, writers |-> writers, issue |-> issue], verdict)
    /\ issues' = ReportAll(issues, verdict.reports)
    /\ nChecks' = nChecks + 1
    /\ UNCHANGED submitter

\* ValidInformationForPullFromUpstream: a value that is None (or empty) is not set
None == "None"
IsSet(value) == value # None /\ value # ""
UpstreamProjectUrls == {None, "https://github.com/packit/ogr"}
Versions == {"1.0"}
NewHotnessUpdateEvents ==
    {[event_type |-> "NewHotnessUpdateEvent", version |-> v, repo_name |-> n,
      repo_namespace |-> ns, tag_name |-> t, actor |-> None, pr_id |-> 0,
      project_url |-> dist_git_project_url] :
        v \in Versions, n \in {None, "ogr"}, ns \in {None, "packit"}, t \in {None, "1.0"}}
PullFromUpstreamComments ==
    {[event_type |-> "PullRequestCommentPagureEvent", version |-> None, repo_name |-> n,
      repo_namespace |-> ns, tag_name |-> None, actor |-> u, pr_id |-> i,
      project_url |-> dist_git_project_url] :
        n \in {None, "ogr"}, ns \in {None, "packit"}, u \in Users, i \in PrIds}

PullFromUpstreamTitle(event) ==
    "Pull from upstream could not be run for update " \o event.version
\* (the message quotes the option in backquotes, written as apostrophes here)
UrlNotSetMsg == "'upstream_project_url' is not set in the dist-git package configuration."
NotParsedMsg(package_config) ==
    "We were not able to parse repo name or repo namespace from the upstream_project_url '"
    \o package_config.upstream_project_url \o "' defined in the config."
NoTagMsg == "We were not able to get the upstream tag name."
NotPackagerPullMsg(event) ==
    "pull-from-upstream retriggering through comment on PR identifier "
    \o ToString(event.pr_id) \o " and project " \o event.project_url
    \o " done by " \o event.actor \o " who is not a packager."
\* the statement assigns the first literal only, the second is an expression
\* statement of its own
PullRetriggerTitle == "Re-triggering pull-from-upstream "

\* a failed condition: the message and the title are assigned, valid is cleared
Fail(locals, msg, title) ==
    [locals EXCEPT !.valid = FALSE, !.msg_to_report = msg, !.issue_title = title]

\* ValidInformationForPullFromUpstream.pre_check
ValidInformationForPullFromUpstream_pre_check(event, package_config, packagers) ==
    LET start == [valid |-> TRUE, msg_to_report |-> None,
                  issue_title |-> PullFromUpstreamTitle(event), calls |-> <<>>]
        url == IF ~IsSet(package_config.upstream_project_url)
               THEN Fail(start, UrlNotSetMsg, start.issue_title)
               ELSE start
        repo == IF ~(IsSet(event.repo_name) /\ IsSet(event.repo_namespace))
                THEN Fail(url, NotParsedMsg(package_config), url.issue_title)
                ELSE url
        tag == IF event.event_type = "NewHotnessUpdateEvent" /\ ~IsSet(event.tag_name)
               THEN Fail(repo, NoTagMsg, repo.issue_title)
               ELSE repo
        asked == [tag EXCEPT !.calls = Append(@, "is_packager")]
        packager == IF event.event_type = "PullRequestCommentPagureEvent"
                    THEN IF ~is_packager(event.actor, packagers)
                         THEN Fail(asked, NotPackagerPullMsg(event), PullRetriggerTitle)
                         ELSE asked
                    ELSE tag
    IN  IF packager.msg_to_report # None
        THEN Verdict(packager.valid, packager.calls \o <<"report_in_issue_repository">>,
                     <<Report(packager.issue_title, packager.msg_to_report,
                              packager.msg_to_report)>>)
        ELSE Verdict(packager.valid, packager.calls, <<>>)

ValidInformationForPullFromUpstream(event, package_config, packagers) ==
    LET verdict == ValidInformationForPullFromUpstream_pre_check(event, package_config,
                                                                 packagers) IN
    /\ CanCheck
    /\ checked' = Outcome("ValidInformationForPullFromUpstream",
                          [event |-> event, package_config |-> package_config,
                           packagers |-> packagers], verdict)
    /\ issues' = ReportAll(issues, verdict.reports)
    /\ nChecks' = nChecks + 1
    /\ UNCHANGED submitter

\* IsUpstreamTagMatchingConfig: tags and patterns; the empty sequence stands
\* for None and for the empty string, which the code does not tell apart
NoTag == <<>>
NoPattern == <<>>
Tags == {NoTag, <<"1", ".", "2">>, <<"1", ".", "2", "0">>, <<"1", "x", "2">>,
         <<"2", ".", "0">>}
Patterns == {NoPattern, <<"1", ".", "2">>, <<"1", ".", "2", "$">>, <<"2">>}

\* re.match for patterns of literals, "." and "$": the pattern matches at
\* position 0 of the string, and need not match all of it
RECURSIVE re_fullmatch(_, _)
RECURSIVE re_match(_, _)
re_fullmatch(pattern, string) ==
    IF pattern = <<>> THEN string = <<>>
    ELSE IF Head(pattern) = "$" THEN string = <<>> /\ re_fullmatch(Tail(pattern), string)
    ELSE /\ string # <<>>
         /\ (Head(pattern) = "." \/ Head(pattern) = Head(string))
         /\ re_fullmatch(Tail(pattern), Tail(string))
re_match(pattern, string) ==
    IF pattern = <<>> THEN TRUE
    ELSE IF Head(pattern) = "$" THEN string = <<>> /\ re_match(Tail(pattern), string)
    ELSE /\ string # <<>>
         /\ (Head(pattern) = "." \/ Head(pattern) = Head(string))
         /\ re_match(Tail(pattern), Tail(string))

\* IsUpstreamTagMatchingConfig.pre_check
IsUpstreamTagMatchingConfig_pre_check(tag, upstream_tag_include, upstream_tag_exclude) ==
    IF tag = NoTag
    THEN Verdict(TRUE, <<>>, <<>>)
    ELSE IF upstream_tag_include # NoPattern /\ ~re_match(upstream_tag_include, tag)
    THEN Verdict(FALSE, <<>>, <<>>)
    ELSE IF upstream_tag_exclude # NoPattern /\ re_match(upstream_tag_exclude, tag)
    THEN Verdict(FALSE, <<>>, <<>>)
    ELSE Verdict(TRUE, <<>>, <<>>)

IsUpstreamTagMatchingConfig(tag, upstream_tag_include, upstream_tag_exclude) ==
    LET verdict == IsUpstreamTagMatchingConfig_pre_check(tag, upstream_tag_include,
                                                         upstream_tag_exclude) IN
    /\ CanCheck
    /\ checked' = Outcome("IsUpstreamTagMatchingConfig",
                          [tag |-> tag, upstream_tag_include |-> upstream_tag_include,
                           upstream_tag_exclude |-> upstream_tag_exclude], verdict)
    /\ issues' = ReportAll(issues, verdict.reports)
    /\ nChecks' = nChecks + 1
    /\ UNCHANGED submitter

\* the worker is done with the event
Return ==
    /\ checked # NoCheck
    /\ checked' = NoCheck
    /\ UNCHANGED <<issues, nChecks>>
    /\ UNCHANGED submitter

\* a maintainer closes an issue: it is no longer among the open issues
CloseIssue(i) ==
    /\ checked = NoCheck
    /\ issues' = SubSeq(issues, 1, i - 1) \o SubSeq(issues, i + 1, Len(issues))
    /\ UNCHANGED <<checked, nChecks>>
    /\ UNCHANGED submitter

GateInit ==
    /\ Init
    /\ tests_targets = <<>>
    /\ build_targets = {}
    /\ copr_builds = <<>>
    /\ tft_api_url = TftApiUrl(CHOOSE u \in ConfiguredApiUrls : TRUE)

GateNext ==
    \/ \E event \in PushPagureEvents, job_config \in JobConfigs,
          pull_request \in PullRequests :
            /\ (pull_request # NoPullRequest => MergeServiceAccount(event.committer))
            /\ PermissionOnDistgit(event, job_config, pull_request, {"alice"})
    \/ \E event \in PullRequestCommentPagureEvents \cup OtherEvents,
          job_config \in JobConfigs, packagers \in PackagerSets :
            PermissionOnDistgit(event, job_config, NoPullRequest, packagers)
    \/ \E event \in IssueCommentEvents \cup NonIssueEvents, writers \in WriterSets,
          title \in IssueTitles :
            HasIssueCommenterRetriggeringPermissions(event, writers, [title |-> title])
    \/ \E event \in NewHotnessUpdateEvents \cup PullFromUpstreamComments,
          url \in UpstreamProjectUrls, packagers \in PackagerSets :
            ValidInformationForPullFromUpstream(event, [upstream_project_url |-> url],
                                                packagers)
    \/ \E tag \in Tags, upstream_tag_include \in Patterns,
          upstream_tag_exclude \in Patterns :
            IsUpstreamTagMatchingConfig(tag, upstream_tag_include, upstream_tag_exclude)
    \/ Return
    \/ \E i \in DOMAIN issues : CloseIssue(i)

SpecGate == GateInit /\ [][GateNext]_vars

----------------------------------------------------------------------------
(* Properties *)

Range(seq) == {seq[i] : i \in DOMAIN seq}
Last(seq) == seq[Len(seq)]
EntriesOf(target) == SelectSeq(log, LAMBDA e : e.chroot = target)
Posts(entries) == SelectSeq(entries, LAMBDA e : e.kind = "http" /\ e.method = "POST")
BuildExists == copr_builds # <<>>
ConnectFailure == "Exception: Cannot connect to url"

\* C1: when run_testing_farm_on_all found a build and has returned with at least
\* one failing target, the details of its result hold, for every target whose
\* run_testing_farm returned failure, an entry keyed by the target with the
\* details of that failure.
C1_AggregateKeepsEveryFailure ==
    (allPc = "done" /\ BuildExists) =>
        \A i \in DOMAIN returned :
            ~returned[i].result.success =>
                \E j \in DOMAIN allResult.details.items :
                    /\ allResult.details.items[j].key = returned[i].chroot
                    /\ allResult.details.items[j].value = returned[i].result.details

\* C2 as stated: whenever a build exists, run_testing_farm_on_all ends having
\* called run_testing_farm once for every configured target, in order.
C2_EveryTargetSubmitted ==
    (allPc \in {"done", "raised"} /\ BuildExists) => entered = tests_targets

\* C2 as amended: with a build, the targets are submitted one at a time, once
\* each, in configured order; when no call raises, every target is submitted
\* whether or not earlier ones failed, and the result is success iff no call
\* returned failure; a call that raises ends the loop at its target.
C2_SequentialFanOut ==
    (allPc \in {"loop", "done", "raised"} /\ BuildExists) =>
        /\ Len(entered) <= Len(tests_targets)
        /\ entered = SubSeq(tests_targets, 1, Len(entered))
        /\ Len(entered) - Len(returned) \in {0, 1}
        /\ \A i \in DOMAIN returned : returned[i].chroot = entered[i]
        /\ allPc = "done" =>
              /\ entered = tests_targets
              /\ Len(returned) = Len(tests_targets)
              /\ allResult.success <=> \A i \in DOMAIN returned : returned[i].result.success
        /\ allPc = "raised" =>
              /\ raised # ""
              /\ Len(returned) = Len(entered) - 1

\* the first of two targets failed and the second was submitted all the same
C2_FailureThenSubmission ==
    /\ allPc = "done"
    /\ Len(tests_targets) = 2
    /\ Len(returned) = 2
    /\ ~returned[1].result.success
    /\ returned[2].result.success
    /\ ~allResult.success

\* C3: without a build of owner/project, run_testing_farm_on_all returns failure
\* with a message naming owner/project, and has made no HTTP request, set no
\* status, inserted no test run and submitted no target.
C3_NoBuildNoEffects ==
    (allPc = "done" /\ copr_builds = <<>>) =>
        /\ ~allResult.success
        /\ allResult.details.msg = "No copr builds for packit/hello-world"
        /\ log = <<>>
        /\ entered = <<>>
        /\ Len(testRuns) = runsAtEntry

\* no build, with two targets configured and test runs of an earlier invocation
C3_NoBuildWithTargets ==
    /\ allPc = "done"
    /\ copr_builds = <<>>
    /\ Len(tests_targets) = 2
    /\ testRuns # <<>>

\* C4: run_testing_farm for a chroot that is not in tests_targets returns failure
\* without raising, and has made no HTTP request and inserted no test run.
C4_UndeclaredTargetFails ==
    (onePc # "idle" /\ chroot \notin Range(tests_targets)) =>
        /\ onePc = "done"
        /\ raised = ""
        /\ ~oneResult.success
        /\ \A i \in DOMAIN log : log[i].kind \notin {"http", "insert"}
        /\ Len(testRuns) = runsAtEntry

\* a call for a chroot that is a build target but no test target
C4_UndeclaredButBuilt ==
    /\ onePc = "done"
    /\ chroot \notin Range(tests_targets)
    /\ chroot \in build_targets
    /\ tests_targets # <<>>

\* C5: run_testing_farm for a chroot of tests_targets that is not in build_targets
\* sets one status for it, an error or failure saying that no build is defined
\* for the target, and returns failure: no HTTP request, no test run, and no
\* "submitting the tests" status.
C5_MissingBuildReported ==
    (onePc # "idle" /\ chroot \in Range(tests_targets) /\ chroot \notin build_targets) =>
        /\ onePc = "done"
        /\ ~oneResult.success
        /\ Len(testRuns) = runsAtEntry
        /\ LET entries == EntriesOf(chroot) IN
              /\ Len(entries) = 1
              /\ entries[1].kind = "status"
              /\ entries[1].state \in {"error", "failure"}
              /\ entries[1].description = "No build defined for the target '" \o chroot \o "'."

\* the second target of the loop has no build
C5_MissingBuildInFanOut ==
    /\ onePc = "done"
    /\ caller = "all"
    /\ chroot \in Range(tests_targets)
    /\ chroot \notin build_targets
    /\ Len(entered) = 2

\* C6: every HTTP request, the GET of the composes or the POST, comes after the
\* pending status "Build succeeded. Submitting the tests ..." of its chroot.
C6_PendingBeforeHttp ==
    \A i \in DOMAIN log :
        log[i].kind = "http" =>
            \E j \in 1..(i - 1) :
                /\ log[j].kind = "status"
                /\ log[j].state = "pending"
                /\ log[j].description = "Build succeeded. Submitting the tests ..."
                /\ log[j].chroot = log[i].chroot

\* the POST of the second target of the loop is in flight
C6_PostSent ==
    /\ onePc = "requests"
    /\ Len(Posts(log)) = 2

C8_RejectedSubmissionReported ==
    (onePc \in {"done", "raised"} /\ req # NoResponse /\ req.status_code # 200) =>
        /\ onePc = "done"
        /\ ~oneResult.success
        /\ Len(testRuns) = runsAtEntry
        /\ Len(Posts(EntriesOf(chroot))) = 1
        /\ Last(log).kind = "status"
        /\ Last(log).state = "failure"
        /\ Last(log).chroot = chroot
        /\ Last(log).description =
              IF req.json.message # Absent
              THEN req.json.message
              ELSE "Failed to submit tests: " \o req.reason

\* a 400 with {"message": "bad env"} was reported as "bad env"
C8_BadEnv ==
    /\ onePc = "done"
    /\ req.status_code = 400
    /\ req.json.message = "bad env"
    /\ Last(log).description = "bad env"

\* C9 as stated: every response with a 2xx status leads to a test run and a
\* success result, and the failure outcome follows only a status outside 2xx.
C9_Every2xxAccepted ==
    (onePc \in {"done", "raised"} /\ req # NoResponse /\ req.json.id # Absent) =>
        /\ req.status_code \in 200..299 =>
              /\ onePc = "done"
              /\ oneResult.success
              /\ Len(testRuns) = runsAtEntry + 1
        /\ (onePc = "done" /\ ~oneResult.success) => req.status_code \notin 200..299

\* C9 as amended: the response is classified by its status being 200 or not: a
\* 200 with an id leads to a test run and success, every other status, 201
\* included, to the failure status, no test run and a failure result.
C9_ClassifiedByStatus200 ==
    (onePc \in {"done", "raised"} /\ req # NoResponse) =>
        IF req.status_code = 200
        THEN IF req.json.id # Absent
             THEN onePc = "done" /\ oneResult.success /\ Len(testRuns) = runsAtEntry + 1
             ELSE onePc = "raised" /\ Len(testRuns) = runsAtEntry
        ELSE /\ onePc = "done"
             /\ ~oneResult.success
             /\ Len(testRuns) = runsAtEntry
             /\ Last(log).state = "failure"

\* a 201 with an id ended as a failure
C9_CreatedIsFailure ==
    /\ onePc = "done"
    /\ req.status_code = 201
    /\ req.json.id # Absent
    /\ ~oneResult.success
    /\ Last(log).state = "failure"

\* C10: a request whose connection attempts fail until the retries of the adapter
\* (5 for https) are used up leaves run_testing_farm by an exception: the call
\* returns no result and inserts no test run, and no request is attempted more
\* than 5 + 1 times.
C10_ConnectionFailureRaises ==
    /\ attempts <= MaxRetries + 1
    /\ attempts > RetryBudget(tft_api_url) =>
          /\ onePc = "raised"
          /\ raised = ConnectFailure
          /\ Len(returned) < Len(entered)
          /\ Len(testRuns) = runsAtEntry
    /\ raised = ConnectFailure =>
          /\ onePc = "raised"
          /\ attempts = RetryBudget(tft_api_url) + 1
          /\ tft_api_url.scheme = "https" => attempts = 6

\* the POST over https failed six times and the exception left the call
C10_PostRetriesExhausted ==
    /\ onePc = "raised"
    /\ raised = ConnectFailure
    /\ attempts = 6
    /\ Last(log).method = "POST"

\* C11, for the transport failures it names: when run_testing_farm is left by the
\* exception raised for a failed connection (of the GET or of the POST), the last
\* status set for the chroot is not the pending "Build succeeded. Submitting the
\* tests ..." status: a failure or error status has replaced it.
C11_TransportFailureNotLeftPending ==
    (onePc = "raised" /\ raised = ConnectFailure) =>
        LET statuses == SelectSeq(EntriesOf(chroot), LAMBDA e : e.kind = "status") IN
            ~(/\ statuses # <<>>
              /\ Last(statuses).state = "pending"
              /\ Last(statuses).description = "Build succeeded. Submitting the tests ...")

\* C12: every test run has status new and a target that is both a test target
\* and a build target, every POST was sent for such a target, and a step never
\* changes or removes a row that exists.
C12_RunsOnlyForDeclaredTargets ==
    /\ [](/\ \A i \in DOMAIN testRuns :
                /\ testRuns[i].status = "new"
                /\ testRuns[i].target \in Range(tests_targets)
                /\ testRuns[i].target \in build_targets
          /\ \A i \in DOMAIN log :
                (log[i].kind = "http" /\ log[i].method = "POST") =>
                    /\ log[i].chroot \in Range(tests_targets)
                    /\ log[i].chroot \in build_targets)
    /\ [][/\ Len(testRuns') >= Len(testRuns)
          /\ SubSeq(testRuns', 1, Len(testRuns)) = testRuns]_vars

\* a POST is in flight while two rows of earlier submissions exist
C12_PostWithEarlierRuns ==
    /\ onePc = "requests"
    /\ Len(testRuns) = 2
    /\ nCalls = 2

-----------------------------------------------------------------------------
(* Properties of the policy gate *)

Called(name) == \E i \in DOMAIN checked.calls : checked.calls[i] = name
First(name) == CHOOSE i \in DOMAIN checked.calls :
                   checked.calls[i] = name /\ \A j \in 1..(i - 1) : checked.calls[j] # name
\* a step in which a checker is handed an event
Checking == checked = NoCheck /\ checked' # NoCheck

RECURSIVE TotalMessages(_)
TotalMessages(repo) ==
    IF repo = <<>> THEN 0
    ELSE 1 + Len(repo[1].comments) + TotalMessages(Tail(repo))

IsPushCheck ==
    /\ checked.checker = "PermissionOnDistgit"
    /\ checked.inputs.event.event_type = "PushPagureEvent"
PushOnAllowedBranch ==
    /\ IsPushCheck
    /\ checked.inputs.event.git_ref
           \in get_branches(checked.inputs.job_config.dist_git_branches, "main")
PushOutsideAllowlist == IsPushCheck /\ ~PushOnAllowedBranch

\* C13: a push check of a git reference outside the alias-expanded branch allowlist
\* (default main) rejects, reports nothing, leaves the issue repository as it was
\* and calls neither the pull request lookup, the diff retrieval, nor the
\* allowed_pr_authors / allowed_committers checks.
C13_PushOutsideAllowlistRejectedSilently ==
    /\ [](PushOutsideAllowlist =>
            /\ ~checked.accepted
            /\ checked.reports = <<>>
            /\ \A name \in {"pull_request", "get_pr_files_diff", "get_pr_author",
                            "allowed_pr_authors", "allowed_committers",
                            "report_in_issue_repository"} : ~Called(name))
    /\ [][(Checking /\ PushOutsideAllowlist') => issues' = issues]_vars

\* a merge-service push that every later condition would let pass is rejected for
\* its branch
C13_OnlyBranchFails ==
    /\ PushOutsideAllowlist
    /\ checked.inputs.event.git_ref = "devel"
    /\ checked.inputs.event.committer = "pagure"
    /\ ~checked.inputs.pull_request.none
    /\ checked.inputs.pull_request.diff = [none |-> FALSE, files |-> {ReadmePath, SpecPath}]
    /\ checked.inputs.pull_request.author \in checked.inputs.job_config.allowed_pr_authors
    /\ ~checked.accepted

MergeServicePushOnBranch ==
    PushOnAllowedBranch /\ checked.inputs.event.committer = "pagure"
HasSpecPath(pull_request) ==
    /\ ~pull_request.diff.none
    /\ \E f \in pull_request.diff.files :
          /\ Len(f) >= 5
          /\ [i \in 1..5 |-> f[Len(f) - 5 + i]] = <<".", "s", "p", "e", "c">>

\* C14: a push check of the merge-service account on an allowed branch accepts
\* exactly when the pull request is resolvable, its diff has a path ending in
\* ".spec" and its author is in allowed_pr_authors; an unresolvable pull request
\* ends the check before the diff retrieval, a diff without such a path ends it
\* before the author check, and the three are made in that order.
C14_MergeServicePushAcceptance ==
    MergeServicePushOnBranch =>
        LET pull_request == checked.inputs.pull_request IN
        /\ checked.accepted <=>
              /\ ~pull_request.none
              /\ HasSpecPath(pull_request)
              /\ pull_request.author \in checked.inputs.job_config.allowed_pr_authors
        /\ pull_request.none =>
              /\ ~Called("get_pr_files_diff")
              /\ ~Called("get_pr_author") /\ ~Called("allowed_pr_authors")
        /\ (~pull_request.none /\ ~HasSpecPath(pull_request)) =>
              /\ Called("get_pr_files_diff")
              /\ ~Called("get_pr_author") /\ ~Called("allowed_pr_authors")
        /\ Called("allowed_pr_authors") =>
              /\ First("pull_request") < First("get_pr_files_diff")
              /\ First("get_pr_files_diff") < First("get_pr_author")
              /\ First("get_pr_author") <= First("allowed_pr_authors")
        /\ ~Called("allowed_committers")

\* a merge-service push is rejected because the only path that mentions ".spec"
\* does not end with it
C14_SpecOnlyInsideAPath ==
    /\ MergeServicePushOnBranch
    /\ ~checked.inputs.pull_request.none
    /\ checked.inputs.pull_request.diff = [none |-> FALSE, files |-> {ReadmePath, BackupPath}]
    /\ checked.inputs.pull_request.author \in checked.inputs.job_config.allowed_pr_authors
    /\ ~checked.accepted

\* the two allowlist mismatches of a push
CommitterMismatch ==
    /\ PushOnAllowedBranch
    /\ checked.inputs.event.committer # "pagure"
    /\ checked.inputs.event.committer \notin checked.inputs.job_config.allowed_committers
PrAuthorMismatch ==
    /\ MergeServicePushOnBranch
    /\ ~checked.inputs.pull_request.none
    /\ HasSpecPath(checked.inputs.pull_request)
    /\ checked.inputs.pull_request.author
           \notin checked.inputs.job_config.allowed_pr_authors

\* C15, as the code has it: no rejection of a push is reported; the check of a
\* push makes no report and leaves the issue repository as it was, whether it
\* rejects for the branch, the pull request, the diff, the author or the committer.
C15_NoPushRejectionReported ==
    /\ [](IsPushCheck =>
            /\ checked.reports = <<>>
            /\ ~Called("report_in_issue_repository")
            /\ (CommitterMismatch \/ PrAuthorMismatch) => ~checked.accepted)
    /\ [][(Checking /\ IsPushCheck') => issues' = issues]_vars

\* C15, as stated: the committer and the PR author mismatch are reported.
C15_MismatchRejectionsReported ==
    (CommitterMismatch \/ PrAuthorMismatch) => checked.reports # <<>>

\* a direct push by a committer who is not in allowed_committers has been rejected
C15_CommitterMismatchRejected ==
    /\ CommitterMismatch
    /\ checked.inputs.event.committer = "mallory"
    /\ ~checked.accepted

IsPrCommentCheck ==
    /\ checked.checker = "PermissionOnDistgit"
    /\ checked.inputs.event.event_type = "PullRequestCommentPagureEvent"

\* C16: a check of a comment on a pull request accepts exactly when the commenter
\* is a packager, whatever the branch and the allowlists; a rejection makes one
\* report, whose message names the pull request, the project and the commenter;
\* an acceptance makes none.
C16_PrCommentNeedsPackager ==
    IsPrCommentCheck =>
            LET event == checked.inputs.event IN
            /\ checked.accepted <=> event.actor \in checked.inputs.packagers
            /\ checked.accepted => checked.reports = <<>>
            /\ ~checked.accepted =>
                  /\ Len(checked.reports) = 1
                  /\ checked.reports[1].comment_to_existing =
                        "koji-build retriggering through comment on PR identifier "
                        \o ToString(event.pr_id) \o " and project " \o event.project_url
                        \o " done by " \o event.actor \o " which is not a packager."
                  /\ checked.reports[1].message =
                        checked.reports[1].comment_to_existing \o MSG_GET_IN_TOUCH

\* a commenter who is in both allowlists, on an allowed branch, is rejected for
\* not being a packager
C16_AllowedButNoPackager ==
    /\ IsPrCommentCheck
    /\ checked.inputs.event.git_ref = "main"
    /\ checked.inputs.event.actor \in checked.inputs.job_config.allowed_committers
    /\ checked.inputs.event.actor \in checked.inputs.job_config.allowed_pr_authors
    /\ ~checked.accepted

IsIssueCheck == checked.checker = "HasIssueCommenterRetriggeringPermissions"

\* C17: the check of a comment on an issue (of either forge) accepts exactly when
\* the actor has write access; a rejection makes one report, under the title of
\* the issue commented on, and an acceptance makes none; for any other event the
\* check accepts without asking for write access and without a report.
C17_IssueCommentNeedsWriteAccess ==
    IsIssueCheck =>
        LET event == checked.inputs.event IN
        IF event.event_type \in {"IssueCommentEvent", "IssueCommentGitlabEvent"}
        THEN /\ checked.accepted <=> event.actor \in checked.inputs.writers
             /\ checked.accepted =>
                   checked.reports = <<>> /\ ~Called("report_in_issue_repository")
             /\ ~checked.accepted =>
                   /\ Len(checked.reports) = 1
                   /\ checked.reports[1].title = checked.inputs.issue.title
        ELSE /\ checked.accepted
             /\ ~Called("has_write_access")
             /\ checked.reports = <<>> /\ ~Called("report_in_issue_repository")

\* a comment on a GitLab issue by a user without write access has been rejected
\* and reported under the issue's own title
C17_RejectedUnderIssueTitle ==
    /\ IsIssueCheck
    /\ checked.inputs.event.event_type = "IssueCommentGitlabEvent"
    /\ checked.inputs.issue.title = "Koji build of packit"
    /\ ~checked.accepted
    /\ checked.reports # <<>>

IsUpstreamCheck == checked.checker = "ValidInformationForPullFromUpstream"

\* the messages of the conditions that fail for the inputs of the check, in the
\* order of the conditions
FailingConditions ==
    LET event == checked.inputs.event
        url == checked.inputs.package_config.upstream_project_url
        conditions ==
            << [fails |-> url = None, msg |-> UrlNotSetMsg],
               [fails |-> event.repo_name = None \/ event.repo_namespace = None,
                msg |-> NotParsedMsg(checked.inputs.package_config)],
               [fails |-> event.event_type = "NewHotnessUpdateEvent" /\ event.tag_name = None,
                msg |-> NoTagMsg],
               [fails |-> /\ event.event_type = "PullRequestCommentPagureEvent"
                          /\ event.actor \notin checked.inputs.packagers,
                msg |-> NotPackagerPullMsg(event)] >>
    IN  SelectSeq(conditions, LAMBDA c : c.fails)

\* C18: when several conditions of the upstream-pull validation fail, the check
\* rejects and makes one report, which carries the message of the first failing
\* condition.
C18_FirstFailureReported ==
    (IsUpstreamCheck /\ Len(FailingConditions) >= 2) =>
        /\ ~checked.accepted
        /\ Len(checked.reports) = 1
        /\ checked.reports[1].message = FailingConditions[1].msg

IsTagCheck == checked.checker = "IsUpstreamTagMatchingConfig"

\* the pattern matches the tag from its first character on: every character of
\* the pattern but a closing "$" is "." or the tag's character at that place,
\* and a closing "$" wants the tag to end there
MatchesAtStart(pattern, tag) ==
    LET anchored == pattern[Len(pattern)] = "$"
        body == IF anchored THEN SubSeq(pattern, 1, Len(pattern) - 1) ELSE pattern IN
    /\ Len(body) <= Len(tag)
    /\ \A i \in 1..Len(body) : body[i] = "." \/ body[i] = tag[i]
    /\ anchored => Len(tag) = Len(body)

\* C19: the tag filter accepts exactly when there is no tag, or the include
\* pattern is not configured or matches the tag from position 0, and the exclude
\* pattern is not configured or does not match the tag from position 0; a
\* pattern need only match a prefix of the tag.
C19_TagFilter ==
    IsTagCheck =>
        LET tag == checked.inputs.tag
            include == checked.inputs.upstream_tag_include
            exclude == checked.inputs.upstream_tag_exclude IN
        /\ checked.accepted <=>
              \/ tag = <<>>
              \/ /\ (include = <<>> \/ MatchesAtStart(include, tag))
                 /\ (exclude = <<>> \/ ~MatchesAtStart(exclude, tag))
        /\ (tag # <<>> /\ exclude # <<>> /\ MatchesAtStart(exclude, tag)) => ~checked.accepted
        /\ checked.reports = <<>>

\* the tag 1.20 is accepted for the include pattern 1.2, which matches only its
\* first three characters
C19_PrefixIncluded ==
    /\ IsTagCheck
    /\ checked.inputs.tag = <<"1", ".", "2", "0">>
    /\ checked.inputs.upstream_tag_include = <<"1", ".", "2">>
    /\ checked.inputs.upstream_tag_exclude = <<"2">>
    /\ checked.accepted

\* C20: the open issues never hold two issues of one title; a report whose title
\* an open issue carries adds one comment, the report's, to that issue and opens
\* no issue, and a report whose title no open issue carries opens one issue of
\* that title with the report's message.
C20_OneOpenIssuePerTitle ==
    /\ [](\A i, j \in DOMAIN issues : issues[i].title = issues[j].title => i = j)
    /\ [][(Checking /\ checked'.reports # <<>>) =>
            LET report == checked'.reports[1] IN
            IF \E i \in DOMAIN issues : issues[i].title = report.title
            THEN /\ Len(issues') = Len(issues)
                 /\ TotalMessages(issues') = TotalMessages(issues) + 1
                 /\ \E i \in DOMAIN issues :
                       /\ issues[i].title = report.title
                       /\ issues'[i] = [issues[i] EXCEPT
                                           !.comments = Append(@, report.comment_to_existing)]
            ELSE /\ Len(issues') = Len(issues) + 1
                 /\ SubSeq(issues', 1, Len(issues)) = issues
                 /\ issues'[Len(issues')].title = report.title
                 /\ issues'[Len(issues')].description = report.message
                 /\ issues'[Len(issues')].comments = <<>>]_vars

\* the upstream-pull validation has made a second report under a title, and the
\* one open issue holds the first report's message and the second as a comment
C20_SecondReportIsAComment ==
    /\ IsUpstreamCheck
    /\ nChecks = 2
    /\ checked.reports # <<>>
    /\ Len(issues) = 1
    /\ Len(issues[1].comments) = 1
    /\ issues[1].comments[1] = checked.reports[1].comment_to_existing
    /\ issues[1].description # checked.reports[1].message

\* a connection failure has been raised in the call run_testing_farm_on_all made
\* for the chroot at idx
RaisedInFanOut ==
    /\ allPc \in {"loop", "raised"}
    /\ caller = "all"
    /\ onePc = "raised"
    /\ raised = ConnectFailure

\* C21: when the call run_testing_farm_on_all made for tests_targets[i] is left
\* by the exception of a failed connection, the exception leaves
\* run_testing_farm_on_all as well: the next step of the invocation is the
\* propagation, which returns no result and leaves the failures collected so far
\* where they are; no chroot after i is entered, has a status set, a request
\* sent or a test run inserted; and the test runs inserted for the chroots before
\* i are still in the table.
C21_TransportFailureEndsFanOut ==
    /\ [](RaisedInFanOut =>
            /\ idx = Len(entered)
            /\ idx \in DOMAIN tests_targets
            /\ chroot = tests_targets[idx]
            /\ entered = SubSeq(tests_targets, 1, idx)
            /\ Len(returned) = idx - 1
            /\ \A k \in (idx + 1)..Len(tests_targets) : EntriesOf(tests_targets[k]) = <<>>
            /\ Len(testRuns) = runsAtEntry
            /\ \A j \in DOMAIN returned :
                  returned[j].result.success =>
                      \E r \in DOMAIN testRuns : testRuns[r].target = returned[j].chroot
            /\ \A j \in DOMAIN returned :
                  ~returned[j].result.success =>
                      \E f \in DOMAIN failed : failed[f].key = returned[j].chroot
            /\ allResult = TaskResults(FALSE, PyNone))
    /\ [][(RaisedInFanOut /\ nCalls' = nCalls) =>
            /\ allPc' = "raised"
            /\ UNCHANGED <<onePc, raised, caller, idx, entered, returned, failed,
                           allResult, testRuns, log>>]_vars

\* the first of two chroots failed, the connection failed for the second, and
\* run_testing_farm_on_all was left by the exception with the failure collected
C21_RaisedAfterAFailure ==
    /\ allPc = "raised"
    /\ raised = ConnectFailure
    /\ Len(tests_targets) = 2
    /\ idx = 2
    /\ Len(returned) = 1
    /\ ~returned[1].result.success
    /\ failed # <<>>

====
